---- MODULE Spec2Model ----
(***************************************************************************)
(* Model of the heap allocator of src/src/heap_allocator.rs and of its     *)
(* C entry points in src/src/lib.rs.                                       *)
(*                                                                         *)
(* Machine words.  A usize (and a pointer) is kept in its two's-complement *)
(* reading: the integer v >= 0 is the word v, the integer v < 0 is the     *)
(* word 2^64 + v (usize::MAX is -1).  With that reading a wrapping         *)
(* addition of words is the addition of their readings as long as the      *)
(* readings stay small, which the bounds below guarantee; what differs     *)
(* from the integers is the ORDER of words (every v < 0 is above every     *)
(* v >= 0) and whether an addition carries out of the word.  Both are      *)
(* modelled explicitly (usize_lt, add_overflows).  An overflowing usize    *)
(* addition panics when the crate is built with overflow checks (the debug *)
(* profile) and wraps otherwise (the release profile).                     *)
(***************************************************************************)
EXTENDS Integers, Sequences, FiniteSets, TLC

\* ------------------------------------------------------------- bounds
\* Largest number of live records the first heap is driven to when the whole
\* allocator is explored (Spec).
MaxAllocs == 3
\* Largest number of live records when one heap is explored alone
\* (SpecRegion).
MaxRegionAllocs == 5
\* Largest number of heaps the allocator is driven to.
MaxHeaps == 2
\* Largest number of calls with a huge size (HugeSizes) in one run.
MaxHuge == 1
\* Largest number of records a fill scenario is driven to.
MaxFill == 16

\* ------------------------------------------------- program constants
\* Heap::align, "size % 4".
AlignWidth == 4
\* HeapAllocator::allocate / free, "self.init_heap(32768)".
DefaultHeapSize == 32768
\* "0 as *mut c_void", the failure result of Heap::allocate.
NULL == 0
\* i32::MAX, the largest value of the type "as i32" casts to.
I32_MAX == 2147483647

\* ------------------------------------------------------ input domains
\* Huge request sizes: usize::MAX - 3 (reading -4), a multiple of 4.
HugeSizes == {0 - 4}
\* Request sizes of the whole allocator: zero, one that align changes
\* (1 -> 2), one above the default capacity, and the huge ones.
Sizes == {0, 1, 40000} \cup HugeSizes
\* Request sizes of one heap explored alone: zero, one that align changes,
\* one it keeps.
RegionSizes == {0, 1, 4}
\* Capacities given to heap_init (room for two records of 2 bytes).
Capacities == {4}
\* The block addresses libc::malloc hands out, in the order of the calls
\* (non-null, pairwise disjoint blocks).
Bases == <<16, 40000>>

VARIABLES
    heaps,            \* HeapAllocator.heaps / ALLOCATOR.heaps: Seq of Heap
    overflow_checks,  \* build profile: TRUE = overflow checks on (debug)
    last,             \* the last call: [op, arg, ret, panicked, hit]
    hist,             \* history: [freed, first, lazy, huge, fails]
    pc,               \* "run", "region", "cast", or the position of a fill
                      \* scenario
    scn               \* scenario bookkeeping: [size, succ, addr] of a fill,
                      \* [anchor, size] of a comparison at full width

vars == <<heaps, overflow_checks, last, hist, pc, scn>>

\* ------------------------------------------------------ machine words
\* a < b as usize / as raw pointers (unsigned order of the words).
usize_lt(a, b) ==
    IF (a < 0) = (b < 0) THEN a < b ELSE b < 0

\* a + b carries out of the word (a, b words).
add_overflows(a, b) ==
    IF a < 0 /\ b < 0 THEN TRUE
    ELSE IF a >= 0 /\ b >= 0 THEN FALSE
    ELSE a + b >= 0

\* "w as i32" for the word w = k * 2^31 + d, with d far below 2^31 in
\* absolute value: the low 32 bits of w, sign-extended.  For an even k the
\* low 32 bits are those of d; for an odd k they are 2^31 + d, which reads
\* d - 2^31 for d >= 0 and 2^31 + d for d < 0.
as_i32_at(k, d) ==
    IF k % 2 = 0 THEN d
    ELSE IF d >= 0 THEN (d - I32_MAX) - 1
    ELSE (d + I32_MAX) + 1

\* "x as i32" for a word given by its two's-complement reading x (the word
\* 0 * 2^31 + x, or 2^64 + x for x < 0): the reading itself whenever it lies
\* in -2^31 .. 2^31-1; usize::MAX - 3 becomes -4.
as_i32(x) == as_i32_at(0, x)

\* "a - b" on i32 leaves the range of i32 (a panic with overflow checks).
i32_sub_overflows(a, b) ==
    \/ (a >= 0 /\ b < 0 /\ a > I32_MAX + b)
    \/ (a < 0 /\ b > 0 /\ a < (b - I32_MAX) - 1)

\* "a - b" on i32 without overflow checks: the difference modulo 2^32.
i32_wrapping_sub(a, b) ==
    IF a >= 0 /\ b < 0 /\ a > I32_MAX + b
    THEN ((a - I32_MAX) - 1) - ((b + I32_MAX) + 1)
    ELSE IF a < 0 /\ b > 0 /\ a < (b - I32_MAX) - 1
    THEN ((a + I32_MAX) + 1) - ((b - I32_MAX) - 1)
    ELSE a - b

\* ------------------------------------------------------ HeapAllocation
HeapAllocation(ptr, real_size, alloc_size) ==
    [ptr |-> ptr, real_size |-> real_size, alloc_size |-> alloc_size]

start(a) == a.ptr

end(a) == start(a) + a.alloc_size

distance_to(self, other) == as_i32(start(other)) - as_i32(end(self))

\* distance_to for records of a heap placed around the address k * 2^31
\* (ptr fields are offsets from that address): the value returned, and
\* whether the i32 subtraction panicked instead (overflow checks on).
distance_to_at(k, self, other, checks) ==
    LET a == as_i32_at(k, start(other))
        b == as_i32_at(k, end(self))
    IN  [ret |-> i32_wrapping_sub(a, b),
         panicked |-> checks /\ i32_sub_overflows(a, b)]

\* --------------------------------------------------------------- Heap
Heap_new(ptr, size) == [ptr |-> ptr, size |-> size, allocations |-> <<>>]

Heap_end(h) == h.ptr + h.size

align(size) == size + (size % AlignWidth)

align_overflows(size) == add_overflows(size, size % AlignWidth)

\* The loop of used_space: the wrapped sum of alloc_size from record i on.
RECURSIVE used_space_from(_, _)
used_space_from(allocs, i) ==
    IF i > Len(allocs) THEN 0
    ELSE allocs[i].alloc_size + used_space_from(allocs, i + 1)

used_space(h) == used_space_from(h.allocations, 1)

\* Some "space += alloc_size" of used_space carries out of the word
\* (acc is the sum so far).
RECURSIVE used_space_overflows_from(_, _, _)
used_space_overflows_from(allocs, i, acc) ==
    IF i > Len(allocs) THEN FALSE
    ELSE add_overflows(acc, allocs[i].alloc_size)
         \/ used_space_overflows_from(allocs, i + 1, acc + allocs[i].alloc_size)

used_space_overflows(h) == used_space_overflows_from(h.allocations, 1, 0)

free_space(h) == h.size - used_space(h)

\* "self.size - self.used_space()" borrows (goes below zero as a usize).
free_space_underflows(h) == usize_lt(h.size, used_space(h))

\* The scan of next_for_size from record i (1-based) on; ptr is the running
\* pointer "ptr.add(alloc_size)" of the records before i.  The index of the
\* result is the 0-based index of the code.
RECURSIVE next_for_size_from(_, _, _, _)
next_for_size_from(h, size, i, ptr) ==
    LET allocs == h.allocations IN
    IF i > Len(allocs) THEN [ptr |-> ptr, index |-> Len(allocs)]
    ELSE IF i > 1 /\ distance_to(allocs[i - 1], allocs[i]) >= as_i32(size)
         THEN [ptr |-> end(allocs[i - 1]), index |-> i - 1]
         ELSE next_for_size_from(h, size, i + 1, ptr + allocs[i].alloc_size)

next_for_size(h, size) == next_for_size_from(h, size, 1, h.ptr)

\* An insert that overwrites the record at the index instead of shifting it.
insert_over(allocs, index, a) ==
    SubSeq(allocs, 1, index) \o <<a>> \o SubSeq(allocs, index + 2, Len(allocs))

\* Vec::insert at a 0-based index.
insert(allocs, index, a) ==
    SubSeq(allocs, 1, index) \o <<a>> \o SubSeq(allocs, index + 1, Len(allocs))

\* Vec::remove at a 0-based index.
remove(allocs, index) ==
    SubSeq(allocs, 1, index) \o SubSeq(allocs, index + 2, Len(allocs))

\* Heap::allocate that records the allocation even when the bounds test
\* fails (and still returns null).
Heap_allocate_unchecked(h, size, checks) ==
    LET alloc_size == align(size)
        place == next_for_size(h, alloc_size)
        overflowed == align_overflows(size) \/ add_overflows(place.ptr, alloc_size)
        h1 == [h EXCEPT !.allocations =
                  insert(@, place.index, HeapAllocation(place.ptr, size, alloc_size))]
    IN  IF checks /\ overflowed
        THEN [heap |-> h, ret |-> NULL, panicked |-> TRUE]
        ELSE IF usize_lt(Heap_end(h), place.ptr + alloc_size)
        THEN [heap |-> h1, ret |-> NULL, panicked |-> FALSE]
        ELSE [heap |-> h1, ret |-> place.ptr, panicked |-> FALSE]

\* Heap::allocate.  Result: the heap after the call, the returned pointer and
\* whether the call panicked (overflow checks on, and align or the bounds
\* test "ptr as usize + alloc_size" overflowed) instead of returning.
Heap_allocate(h, size, checks) ==
    LET alloc_size == align(size)
        place == next_for_size(h, alloc_size)
        overflowed == align_overflows(size) \/ add_overflows(place.ptr, alloc_size)
    IN  IF checks /\ overflowed
        THEN [heap |-> h, ret |-> NULL, panicked |-> TRUE]
        ELSE IF usize_lt(Heap_end(h), place.ptr + alloc_size)
        THEN [heap |-> h, ret |-> NULL, panicked |-> FALSE]
        ELSE [heap |-> [h EXCEPT !.allocations =
                           insert(@, place.index,
                                  HeapAllocation(place.ptr, size, alloc_size))],
              ret |-> place.ptr, panicked |-> FALSE]

\* Heap::free with the address test widened to the whole range of a record
\* ("start <= ptr < end" for "allocation.ptr == ptr").
RECURSIVE free_scan_interior(_, _, _)
free_scan_interior(allocs, ptr, i) ==
    IF i > Len(allocs) THEN 0 - 1
    ELSE IF allocs[i].ptr = ptr
            \/ (usize_lt(allocs[i].ptr, ptr) /\ usize_lt(ptr, end(allocs[i])))
    THEN i - 1
    ELSE IF usize_lt(ptr, allocs[i].ptr) THEN 0 - 1
    ELSE free_scan_interior(allocs, ptr, i + 1)

\* The scan of Heap::free from record i (1-based) on: the 0-based index of
\* the record to remove, or -1 for None.
RECURSIVE free_scan(_, _, _)
free_scan(allocs, ptr, i) ==
    IF i > Len(allocs) THEN 0 - 1
    ELSE IF allocs[i].ptr = ptr THEN i - 1
    ELSE IF usize_lt(ptr, allocs[i].ptr) THEN 0 - 1
    ELSE free_scan(allocs, ptr, i + 1)

\* Heap::free.
Heap_free(h, ptr) ==
    LET idx == free_scan(h.allocations, ptr, 1) IN
    IF idx >= 0 THEN [h EXCEPT !.allocations = remove(@, idx)] ELSE h

\* ------------------------------------------------------ HeapAllocator
\* libc::malloc(size) in Heap::new, called when hs are the heaps created
\* so far: the next block (no heap is ever released, so no block is reused).
\* No block is left after Len(Bases) heaps.
malloc(hs, size) ==
    IF Len(hs) < Len(Bases) THEN {Bases[Len(hs) + 1]} ELSE {}

\* init_heap putting the new heap in front of the others instead of pushing
\* it at the end.
init_heap_front(hs, size, ptr) == <<Heap_new(ptr, size)>> \o hs

\* HeapAllocator::init_heap with the block malloc returned.
init_heap(hs, size, ptr) == Append(hs, Heap_new(ptr, size))

\* The lazy creation without its test "self.heaps.len() == 0".
lazy_init_always(hs, ptr) == init_heap(hs, DefaultHeapSize, ptr)

\* "if self.heaps.len() == 0 { self.init_heap(32768) }" of allocate and free.
lazy_init(hs, ptr) == IF Len(hs) = 0 THEN init_heap(hs, DefaultHeapSize, ptr) ELSE hs

\* HeapAllocator::allocate on heaps hs (ptr: the block malloc returns if the
\* default heap has to be created).
HeapAllocator_allocate(hs, size, ptr, checks) ==
    LET hs1 == lazy_init(hs, ptr)
        r == Heap_allocate(hs1[1], size, checks)
    IN  [heaps |-> [hs1 EXCEPT ![1] = r.heap], ret |-> r.ret, panicked |-> r.panicked]

\* HeapAllocator::free.
HeapAllocator_free(hs, p, ptr) ==
    LET hs1 == lazy_init(hs, ptr) IN [hs1 EXCEPT ![1] = Heap_free(hs1[1], p)]

\* ------------------------------------------------------------ the calls
\* The record of a call: the entry point, its argument, the pointer it
\* returned (0 when it returns nothing), whether it panicked instead of
\* returning and, for a free, whether its argument was the start of some live
\* record of the first heap when it was called.
Call(op, arg, ret, panicked, hit) ==
    [op |-> op, arg |-> arg, ret |-> ret, panicked |-> panicked, hit |-> hit]

\* p is the start of some live record of the first heap.
Live(hs, p) ==
    Len(hs) > 0 /\ \E i \in 1..Len(hs[1].allocations) : hs[1].allocations[i].ptr = p

NoScenario == [size |-> 0, succ |-> 0, addr |-> NULL]

NoHistory == [freed |-> FALSE, first |-> "none", lazy |-> 0, huge |-> 0, fails |-> 0]

\* static mut ALLOCATOR: HeapAllocator = HeapAllocator { heaps: vec![] },
\* in a build with or without overflow checks.
Fresh ==
    /\ heaps = <<>>
    /\ overflow_checks \in BOOLEAN
    /\ last = Call("none", 0, 0, FALSE, FALSE)
    /\ hist = NoHistory

Init ==
    /\ Fresh
    /\ pc = "run"
    /\ scn = NoScenario

\* What an allocate or free adds to the history: the first call, and
\* whether it had to create the default heap.
Used(h, was_empty) ==
    [h EXCEPT !.first = IF @ = "none" THEN "use" ELSE @,
              !.lazy = IF was_empty THEN @ + 1 ELSE @]

\* The number of allocate calls in a row, up to call c included, that asked
\* for the same size and returned null (counted up to 2).
Fails(h, prev, c) ==
    IF c.op = "allocate" /\ ~c.panicked /\ c.ret = NULL
    THEN IF prev.op = "allocate" /\ prev.arg = c.arg /\ h.fails > 0 THEN 2 ELSE 1
    ELSE 0

\* The number of live records the first heap is driven to.
Limit == IF pc = "region" THEN MaxRegionAllocs ELSE MaxAllocs

\* A call heap_malloc(size) -> ALLOCATOR.allocate(size).
malloc_call(size) ==
    /\ \E ptr \in malloc(<<>>, DefaultHeapSize) :
          LET r == HeapAllocator_allocate(heaps, size, ptr, overflow_checks) IN
          /\ heaps' = r.heaps
          /\ last' = Call("allocate", size, r.ret, r.panicked, FALSE)
    /\ hist' = [Used(hist, Len(heaps) = 0) EXCEPT
                    !.huge = IF size \in HugeSizes THEN @ + 1 ELSE @,
                    !.fails = Fails(hist, last, last')]
    /\ UNCHANGED overflow_checks

\* A call heap_free(p) -> ALLOCATOR.free(p).
free_call(p) ==
    /\ \E ptr \in malloc(<<>>, DefaultHeapSize) :
          heaps' = HeapAllocator_free(heaps, p, ptr)
    /\ last' = Call("free", p, 0, FALSE, Live(heaps, p))
    /\ hist' = [Used(hist, Len(heaps) = 0) EXCEPT !.freed = TRUE, !.fails = 0]
    /\ UNCHANGED overflow_checks

\* heap_init(size) -> ALLOCATOR.init_heap(size).
heap_init(size) ==
    /\ pc = "run"
    /\ Len(heaps) < MaxHeaps
    /\ \E ptr \in malloc(heaps, size) :
          heaps' = init_heap(heaps, size, ptr)
    /\ last' = Call("init", size, 0, FALSE, FALSE)
    /\ hist' = [hist EXCEPT !.first = IF @ = "none" THEN "init" ELSE @, !.fails = 0]
    /\ UNCHANGED <<overflow_checks, pc, scn>>

\* heap_malloc(size), any size.
heap_malloc(size) ==
    /\ pc \in {"run", "region"}
    /\ size \in HugeSizes => hist.huge < MaxHuge
    /\ malloc_call(size)
    /\ Len(heaps'[1].allocations) <= Limit
    /\ UNCHANGED <<pc, scn>>

\* The addresses free is called with: null, the start of every live record
\* of the first heap, the byte after the start of its first record
\* (interior to it, or past it), and the address of the previous free.
FreeArgs ==
    {NULL}
    \cup (IF Len(heaps) = 0 THEN {}
          ELSE {heaps[1].allocations[i].ptr : i \in 1..Len(heaps[1].allocations)}
               \cup {heaps[1].allocations[i].ptr + 1 :
                        i \in 1..(IF Len(heaps[1].allocations) > 0 THEN 1 ELSE 0)})
    \cup (IF last.op = "free" THEN {last.arg} ELSE {})

\* heap_free(p), any address.
heap_free(p) ==
    /\ pc \in {"run", "region"}
    /\ free_call(p)
    /\ UNCHANGED <<pc, scn>>

Next ==
    \/ \E size \in Capacities : heap_init(size)
    \/ \E size \in Sizes : heap_malloc(size)
    \/ \E p \in FreeArgs : heap_free(p)

\* The whole allocator, from the empty ALLOCATOR.
Spec == Init /\ [][Next]_vars

\* --------------------------------------------------- one heap, deeper
\* The state after one heap_init(size) on the empty allocator.
AfterInit(size) ==
    /\ heaps = init_heap(<<>>, size, Bases[1])
    /\ overflow_checks \in BOOLEAN
    /\ last = Call("init", size, 0, FALSE, FALSE)
    /\ hist = [NoHistory EXCEPT !.first = "init"]

\* Capacities of the heap explored alone.
RegionCapacities == {8, 12}

InitRegion ==
    /\ \E size \in RegionCapacities : AfterInit(size)
    /\ pc = "region"
    /\ scn = NoScenario

NextRegion ==
    \/ \E size \in RegionSizes : heap_malloc(size)
    \/ \E p \in FreeArgs : heap_free(p)

\* One heap created by heap_init, driven to MaxRegionAllocs records by
\* requests of ordinary sizes.
SpecRegion == InitRegion /\ [][NextRegion]_vars

\* ------------------------------------------ fill, free one, allocate
\* The scenario of tests::allocate_too_many and
\* tests::allocate_then_free_then_allocate, for any size and slot: allocate
\* one size until a call returns null, free one of the records, allocate
\* the size again.  scn.size is the size, scn.succ the number of
\* allocations that returned non-null while filling, scn.addr the address
\* freed.
\* usize::MAX (reading -1): a size whose align carries out of the word.
WrapSizes == {0 - 1}
FillSizes == {1, 4, 2048} \cup HugeSizes \cup WrapSizes
FillCapacities == {8, 12}

InitFill ==
    /\ \/ Fresh
       \/ \E size \in FillCapacities : AfterInit(size)
    /\ pc = "fill"
    /\ \E size \in FillSizes : scn = [size |-> size, succ |-> 0, addr |-> NULL]

\* "for _ in 0..16 { heap.allocate(2048) }", up to the first null.
fill_allocate ==
    /\ pc = "fill"
    /\ malloc_call(scn.size)
    /\ Len(heaps'[1].allocations) <= MaxFill
    /\ pc' = IF last'.panicked THEN "panicked"
             ELSE IF last'.ret = NULL THEN "full" ELSE "fill"
    /\ scn' = [scn EXCEPT !.succ = IF last'.panicked \/ last'.ret = NULL
                                   THEN @ ELSE @ + 1]

\* "heap.free(tracked_alloc)", for the record at any (0-based) index.
fill_free(index) ==
    /\ pc = "full"
    /\ index < Len(heaps[1].allocations)
    /\ free_call(heaps[1].allocations[index + 1].ptr)
    /\ pc' = "freed"
    /\ scn' = [scn EXCEPT !.addr = heaps[1].allocations[index + 1].ptr]

\* "let alloc = heap.allocate(2048)" after the free.
fill_reallocate ==
    /\ pc = "freed"
    /\ malloc_call(scn.size)
    /\ pc' = "done"
    /\ scn' = scn

NextFill ==
    \/ fill_allocate
    \/ \E index \in 0..(MaxFill - 1) : fill_free(index)
    \/ fill_reallocate

SpecFill == InitFill /\ [][NextFill]_vars

\* ------------------------------------------- distance_to at any address
\* The heap may lie anywhere in the address space.  Here it is placed
\* around a multiple of 2^31: scn.anchor is the multiple k, and the ptr
\* fields are offsets from k * 2^31 (negative below it).  The heap holds
\* two records with a gap between them, left by three allocations and a
\* free of the second; the next allocate compares the gap with its size.
Anchors == {2, 3}
CastBases == {0 - 8, 0 - 2, 0}
CastCapacities == {16}
CastSizes == {1, 4}
\* Sizes asked of the next allocate, as k * 2^31 + d: 0, 2, 4 and 2^32.
CompareSizes ==
    {[k |-> 0, d |-> 0], [k |-> 0, d |-> 2], [k |-> 0, d |-> 4], [k |-> 2, d |-> 0]}

\* allocate(sa), allocate(sb), allocate(sc), free(the second) on an empty
\* heap.  None of these compares two different addresses as i32, so the
\* records lie at the same offsets from the base wherever the heap is.
Gapped(h, sa, sb, sc) ==
    LET h1 == Heap_allocate(h, sa, FALSE).heap
        h2 == Heap_allocate(h1, sb, FALSE).heap
        h3 == Heap_allocate(h2, sc, FALSE).heap
    IN  Heap_free(h3, h2.allocations[2].ptr)

\* Heap h, built at offset 0, as malloc returned it at offset base.
At(h, base) ==
    [ptr |-> h.ptr + base, size |-> h.size,
     allocations |-> [i \in 1..Len(h.allocations) |->
                         [h.allocations[i] EXCEPT !.ptr = @ + base]]]

InitCast ==
    /\ \E base \in CastBases, size \in CastCapacities, sa, sb, sc \in CastSizes :
          heaps = <<At(Gapped(Heap_new(0, size), sa, sb, sc), base)>>
    /\ overflow_checks \in BOOLEAN
    /\ last = Call("none", 0, 0, FALSE, FALSE)
    /\ hist = [NoHistory EXCEPT !.first = "init", !.freed = TRUE]
    /\ pc = "cast"
    /\ \E k \in Anchors : scn = [anchor |-> k, size |-> [k |-> 0, d |-> 0]]

\* The test of next_for_size on the two records, for a request of the
\* aligned size: "prev.distance_to(allocation) >= size as i32".  last.ret
\* is the distance returned, last.hit the outcome of the test.
compare(size) ==
    /\ pc = "cast"
    /\ last.op = "none"
    /\ LET r == distance_to_at(scn.anchor, heaps[1].allocations[1],
                               heaps[1].allocations[2], overflow_checks)
       IN  last' = Call("distance_to", 0, r.ret, r.panicked,
                        ~r.panicked /\ r.ret >= as_i32_at(size.k, size.d))
    /\ scn' = [scn EXCEPT !.size = size]
    /\ UNCHANGED <<heaps, overflow_checks, hist, pc>>

NextCast == \E size \in CompareSizes : compare(size)

SpecCast == InitCast /\ [][NextCast]_vars

\* ============================================================ claims
\* Words as numbers: the word with reading v is Hi(v) * 2^64 + v, so sums
\* of words are compared as pairs (number of 2^64 carried, sum of readings).
Hi(v) == IF v < 0 THEN 1 ELSE 0

\* h1 * 2^64 + l1 <= h2 * 2^64 + l2, for readings far below 2^63.
NumLeq(h1, l1, h2, l2) == h1 < h2 \/ (h1 = h2 /\ l1 <= l2)

\* start(a) + a.alloc_size <= start(b), as numbers.
EndsBefore(a, b) ==
    NumLeq(Hi(a.ptr) + Hi(a.alloc_size), a.ptr + a.alloc_size, Hi(b.ptr), b.ptr)

\* The ranges [start, start + alloc_size) of a and b share a byte.
Overlap(a, b) ==
    /\ a.alloc_size # 0
    /\ b.alloc_size # 0
    /\ ~EndsBefore(a, b)
    /\ ~EndsBefore(b, a)

SortedByStart(allocs) ==
    \A i, j \in 1..Len(allocs) : i < j => ~usize_lt(allocs[j].ptr, allocs[i].ptr)

NoOverlap(allocs) ==
    \A i, j \in 1..Len(allocs) : i # j => ~Overlap(allocs[i], allocs[j])

\* C1: after any sequence of allocate and free calls the live records of a
\* heap are sorted ascending by start address and no two of their ranges
\* [start, start + alloc_size) overlap.
C1_SortedDisjoint ==
    \A k \in 1..Len(heaps) :
        SortedByStart(heaps[k].allocations) /\ NoOverlap(heaps[k].allocations)

\* base <= start(a) and start(a) + a.alloc_size <= base + capacity, as numbers.
InBounds(h, a) ==
    /\ ~usize_lt(a.ptr, h.ptr)
    /\ NumLeq(Hi(a.ptr) + Hi(a.alloc_size), a.ptr + a.alloc_size,
              Hi(h.ptr), h.ptr + h.size)

\* C2: in every reachable state every live record lies within its heap:
\* base <= start and start + alloc_size <= base + capacity.
C2_RecordsInBounds ==
    \A k \in 1..Len(heaps) : \A i \in 1..Len(heaps[k].allocations) :
        InBounds(heaps[k], heaps[k].allocations[i])

\* used_space(h) is the sum of alloc_size over the records (no addition
\* carried), free_space(h) is capacity minus it (the subtraction did not
\* borrow), and the two add up to the capacity.
SpaceAccounted(h) ==
    /\ ~used_space_overflows(h)
    /\ ~free_space_underflows(h)
    /\ Hi(used_space(h)) = 0 /\ Hi(free_space(h)) = 0
    /\ used_space(h) + free_space(h) = h.size

\* C3: in every reachable state used_space + free_space = capacity, with
\* free_space (capacity - used_space in usize arithmetic) a valid byte count.
C3_SpaceAccounting ==
    \A k \in 1..Len(heaps) : SpaceAccounted(heaps[k])

\* floor(capacity / r) for a capacity (far below 2^63) and a word r # 0.
Quota(capacity, r) == IF r < 0 THEN 0 ELSE capacity \div r

\* C4: from an empty heap of capacity C, repeated allocate(s) of one size s
\* with r = align(s) > 0 and no free: the first floor(C / r) calls return
\* non-null and the next call returns null (32768 and 2048: 16, then null).
C4_ExhaustionBoundary ==
    (pc \in {"fill", "full", "panicked"} /\ Len(heaps) > 0) =>
        LET quota == Quota(heaps[1].size, align(scn.size)) IN
        /\ pc # "panicked"
        /\ scn.succ <= quota
        /\ pc = "full" => scn.succ = quota

\* The records are packed from the base: each starts where the one before
\* it ends, the first at the base (the walk of tests::ensure_heap_contiguity).
RECURSIVE ContiguousFrom(_, _, _)
ContiguousFrom(allocs, i, ptr) ==
    i > Len(allocs)
    \/ (allocs[i].ptr = ptr /\ ContiguousFrom(allocs, i + 1, ptr + allocs[i].alloc_size))

Contiguous(h) == ContiguousFrom(h.allocations, 1, h.ptr)

\* C5: in a heap filled by k allocations of one size (no free before),
\* freeing the record at any index and allocating the size again returns
\* the address just freed, with k records again, packed from the base.
C5_FreeThenReuse ==
    pc = "done" =>
        /\ ~last.panicked
        /\ last.ret = scn.addr
        /\ Len(heaps[1].allocations) = scn.succ
        /\ Contiguous(heaps[1])

\* C6: free(p) twice in a row: the second call leaves the heaps as the
\* first call left them.
C6_DoubleFree ==
    [][(last.op = "free" /\ last'.op = "free" /\ last'.arg = last.arg)
           => heaps' = heaps]_vars

\* C7: free(p) for a p that is not the start of a live record returns and
\* leaves the records, base and capacity of every heap and the number of
\* heaps (when there is one) unchanged; on the empty allocator it only
\* creates the default heap, with no record.
C7_FreeUnknown ==
    [][(last'.op = "free" /\ ~Live(heaps, last'.arg)) =>
           /\ ~last'.panicked
           /\ IF Len(heaps) > 0 THEN heaps' = heaps
              ELSE Len(heaps') = 1 /\ heaps'[1].allocations = <<>>]_vars

\* A free of an address inside the first record (not its start) has just
\* returned, after an earlier free.
C7_Witness ==
    /\ last.op = "free" /\ ~last.hit
    /\ Len(heaps[1].allocations) > 1
    /\ heaps[1].allocations[1].alloc_size > 1
    /\ last.arg = heaps[1].allocations[1].ptr + 1

\* The heaps other than their records: where they are and how large.
Blocks(hs) == [k \in 1..Len(hs) |-> <<hs[k].ptr, hs[k].size>>]

\* C8: the first allocate or free on an allocator without heaps creates
\* exactly one heap, of capacity 32768; every later allocate or free leaves
\* the heaps in place, and after a heap_init that came first no allocate or
\* free creates a heap.
C8_LazyProvisioning ==
    [][last'.op \in {"allocate", "free"} =>
           IF Len(heaps) = 0
           THEN /\ Len(heaps') = 1
                /\ heaps'[1].size = DefaultHeapSize
                /\ hist.first = "none"
           ELSE Blocks(heaps') = Blocks(heaps)]_vars

\* The default heap was created by a first allocate, and a later allocate
\* and a heap_init have happened since.
C8_Witness ==
    /\ hist.first = "use" /\ hist.lazy = 1
    /\ Len(heaps) = 2
    /\ heaps[1].size = DefaultHeapSize
    /\ Len(heaps[1].allocations) >= 2
    /\ last.op = "allocate" /\ last.ret # NULL
    /\ hist.huge = 0

\* C9: as long as no free has been called, the i-th record starts at the
\* base plus the sizes reserved by the records before it.
C9_ContiguityFromBase ==
    ~hist.freed => \A k \in 1..Len(heaps) : Contiguous(heaps[k])

\* Some gap of heap h has room for r bytes: a gap between two consecutive
\* records, or the trailing gap between the end of the last record (the
\* base if there is none) and the end of the heap.
GapLeq(r, from, to) ==
    r >= 0 /\ NumLeq(Hi(from), from + r, Hi(to), to)

HasGap(h, r) ==
    LET allocs == h.allocations IN
    \/ \E i \in 1..(Len(allocs) - 1) : GapLeq(r, end(allocs[i]), allocs[i + 1].ptr)
    \/ GapLeq(r, IF Len(allocs) = 0 THEN h.ptr ELSE end(allocs[Len(allocs)]),
              Heap_end(h))

\* C10: allocate returns null only when no gap of the first heap, internal
\* or trailing, has room for the aligned size.
C10_NullOnlyWithoutGap ==
    [][(last'.op = "allocate" /\ last'.ret = NULL /\ ~last'.panicked) =>
           ~HasGap(heaps'[1], align(last'.arg))]_vars

\* C11: heap_init only appends one empty heap of the given capacity after
\* the existing heaps, which stay as they are; allocate and free leave
\* every heap but the first as it is; the heaps after the first never hold
\* a record, and the number of heaps never decreases.
C11_OnlyFirstHeapTouched ==
    [][/\ Len(heaps') >= Len(heaps)
       /\ last'.op = "init" =>
              /\ Len(heaps') = Len(heaps) + 1
              /\ SubSeq(heaps', 1, Len(heaps)) = heaps
              /\ heaps'[Len(heaps')].size = last'.arg
              /\ heaps'[Len(heaps')].allocations = <<>>
       /\ last'.op \in {"allocate", "free"} =>
              /\ Len(heaps) > 0 => Len(heaps') = Len(heaps)
              /\ \A k \in 2..Len(heaps) : heaps'[k] = heaps[k]
       /\ \A k \in 2..Len(heaps') : heaps'[k].allocations = <<>>]_vars

\* An allocate has just added a record to the first heap while a second
\* heap, created by a heap_init after earlier allocations, exists.
C11_Witness ==
    /\ Len(heaps) = 2
    /\ hist.first = "use"
    /\ last.op = "allocate" /\ last.ret # NULL /\ ~last.panicked
    /\ Len(heaps[1].allocations) = MaxAllocs
    /\ heaps[2].allocations = <<>>

\* Some gap between two consecutive records of h has room for r bytes.
HasInternalGap(h, r) ==
    \E i \in 1..(Len(h.allocations) - 1) :
        GapLeq(r, end(h.allocations[i]), h.allocations[i + 1].ptr)

\* The end of the last record of h, the base of h if it has no record.
TailEnd(h) ==
    IF Len(h.allocations) = 0 THEN h.ptr ELSE end(h.allocations[Len(h.allocations)])

\* C12: in every reachable state, for a size that no gap between two
\* consecutive records has room for, next_for_size answers the end of the
\* last record (the base if there is no record) and the length of the list.
C12_TailPlacement ==
    \A k \in 1..Len(heaps) : \A size \in RegionSizes :
        ~HasInternalGap(heaps[k], align(size)) =>
            next_for_size(heaps[k], align(size)) =
                [ptr |-> TailEnd(heaps[k]), index |-> Len(heaps[k].allocations)]

\* The first pair of consecutive records of h, in list order, whose gap has
\* room for r bytes (the 1-based index of its first record).
FirstGap(h, r) ==
    CHOOSE i \in 1..(Len(h.allocations) - 1) :
        /\ GapLeq(r, end(h.allocations[i]), h.allocations[i + 1].ptr)
        /\ \A j \in 1..(i - 1) :
              ~GapLeq(r, end(h.allocations[j]), h.allocations[j + 1].ptr)

\* C13: when some pair of consecutive records has a gap with room for the
\* aligned size, allocate returns the end of the first record of the first
\* such pair in list order and inserts the new record between the two; that
\* gap is the one at the lowest address among the gaps with room.
C13_FirstFit ==
    [][(last'.op = "allocate" /\ HasInternalGap(heaps[1], align(last'.arg))) =>
           LET allocs == heaps[1].allocations
               r == align(last'.arg)
               i == FirstGap(heaps[1], r)
           IN  /\ ~last'.panicked
               /\ last'.ret = end(allocs[i])
               /\ heaps'[1].allocations =
                      insert(allocs, i, HeapAllocation(end(allocs[i]), last'.arg, r))
               /\ \A j \in 1..(Len(allocs) - 1) :
                      GapLeq(r, end(allocs[j]), allocs[j + 1].ptr) =>
                          ~usize_lt(end(allocs[j]), last'.ret)]_vars

\* The first record of allocs, in list order, that starts at p (its 1-based
\* index).
FirstAt(allocs, p) ==
    CHOOSE i \in 1..Len(allocs) :
        allocs[i].ptr = p /\ \A j \in 1..(i - 1) : allocs[j].ptr # p

\* C14: free(p) for a p at which some live record starts removes exactly
\* one record, the first in list order that starts at p; the other
\* records stay, in their order.
C14_FreeRemovesFirstMatch ==
    [][(last'.op = "free" /\ Live(heaps, last'.arg)) =>
           LET allocs == heaps[1].allocations IN
           /\ Len(heaps'[1].allocations) = Len(allocs) - 1
           /\ heaps'[1].allocations = remove(allocs, FirstAt(allocs, last'.arg) - 1)]_vars

\* C15: an allocate that returns a non-null address adds exactly one
\* record (ptr = the address returned, real_size = the size asked for,
\* alloc_size = align of it) somewhere in the list of the first heap and
\* leaves the records that were there as they were, in their order; no
\* call changes the base or the capacity of an existing heap.
C15_AllocateAddsOneRecord ==
    [][/\ \A k \in 1..Len(heaps) :
              heaps'[k].ptr = heaps[k].ptr /\ heaps'[k].size = heaps[k].size
       /\ (last'.op = "allocate" /\ ~last'.panicked /\ last'.ret # NULL) =>
              LET allocs == IF Len(heaps) = 0 THEN <<>> ELSE heaps[1].allocations
                  a == HeapAllocation(last'.ret, last'.arg, align(last'.arg))
              IN  \E index \in 0..Len(allocs) :
                      heaps'[1].allocations =
                          SubSeq(allocs, 1, index) \o <<a>>
                              \o SubSeq(allocs, index + 1, Len(allocs))]_vars

\* An allocate has just put a record of 2 bytes into a gap, between two
\* records that were there before.
C15_Witness ==
    /\ last.op = "allocate" /\ last.ret # NULL /\ last.arg = 1
    /\ hist.freed /\ hist.huge = 0
    /\ Len(heaps[1].allocations) = 3
    /\ heaps[1].allocations[2] = HeapAllocation(last.ret, 1, 2)
    /\ end(heaps[1].allocations[1]) = last.ret
    /\ heaps[1].allocations[3].ptr = last.ret + 2

\* An allocate has just returned null (without panicking).
Failed(c) == c.op = "allocate" /\ ~c.panicked /\ c.ret = NULL

\* An allocate that failed is followed by an allocate of the same size:
\* that one fails too.
FailsAgain ==
    (Failed(last) /\ last'.op = "allocate" /\ last'.arg = last.arg) => Failed(last')

\* C16 as stated: an allocate that returns null leaves the record lists and
\* the number of heaps unchanged, and the same call repeated returns null
\* again.
C16_AsStated ==
    [][(Failed(last') => heaps' = heaps) /\ FailsAgain]_vars

\* C16: an allocate that returns null leaves the heaps as they were, except
\* that on an allocator without heaps it has created the default heap,
\* without records; the same call repeated returns null again.
C16_FailedAllocate ==
    [][/\ Failed(last') =>
              IF Len(heaps) > 0 THEN heaps' = heaps
              ELSE /\ Len(heaps') = 1
                   /\ heaps'[1].size = DefaultHeapSize
                   /\ heaps'[1].allocations = <<>>
       /\ FailsAgain]_vars

\* The same allocate has returned null twice in a row on a heap that
\* ordinary requests have filled.
C16_Witness ==
    /\ Failed(last) /\ hist.fails = 2
    /\ last.arg = 1 /\ hist.huge = 0
    /\ Len(heaps[1].allocations) = 2
    /\ used_space(heaps[1]) = heaps[1].size

\* Record a holds the alignment of its requested size: alloc_size is
\* real_size + real_size % 4 as numbers (the addition did not carry), and
\* is not below real_size.
Aligned(a) ==
    /\ ~align_overflows(a.real_size)
    /\ a.alloc_size = align(a.real_size)
    /\ ~usize_lt(a.alloc_size, a.real_size)

\* C17: every live record has alloc_size = real_size + (real_size mod 4),
\* computed without wrap-around, hence alloc_size >= real_size; align maps
\* 5 to 6, 7 to 10 and 2048 to 2048.
C17_AlignedRecords ==
    /\ align(5) = 6 /\ align(7) = 10 /\ align(2048) = 2048
    /\ \A k \in 1..Len(heaps) : \A i \in 1..Len(heaps[k].allocations) :
           Aligned(heaps[k].allocations[i])

\* Some live record of the first heap with bytes reserved starts at p.
LiveNonEmpty(hs, p) ==
    Len(hs) > 0 /\ \E i \in 1..Len(hs[1].allocations) :
        hs[1].allocations[i].ptr = p /\ hs[1].allocations[i].alloc_size # 0

\* C18: a non-null address returned by allocate(size) with size > 0 is not
\* the start of a record (with bytes reserved) that was live before the
\* call, so no two live records with bytes reserved start at one address.
C18_NoLiveAddressReturned ==
    [][(last'.op = "allocate" /\ ~last'.panicked /\ last'.ret # NULL
           /\ last'.arg # 0) =>
           /\ ~LiveNonEmpty(heaps, last'.ret)
           /\ \A i, j \in 1..Len(heaps'[1].allocations) :
                  (i # j /\ heaps'[1].allocations[i].alloc_size # 0
                         /\ heaps'[1].allocations[j].alloc_size # 0)
                  => heaps'[1].allocations[i].ptr # heaps'[1].allocations[j].ptr]_vars

\* C19: in every reachable state the sum of alloc_size over the live
\* records of a heap is at most its capacity, so "self.size -
\* self.used_space()" in free_space does not go below zero.
C19_UsedWithinCapacity ==
    \A k \in 1..Len(heaps) :
        /\ ~used_space_overflows(heaps[k])
        /\ NumLeq(Hi(used_space(heaps[k])), used_space(heaps[k]), 0, heaps[k].size)
        /\ ~free_space_underflows(heaps[k])

\* C20: for two records of one heap, wherever the heap lies, distance_to
\* returns the difference next start - prev end (no overflow, no
\* truncation), and its comparison with the size cast to i32 agrees with
\* the comparison of the difference with the size itself.
C20_DistanceExact ==
    (pc = "cast" /\ last.op = "distance_to") =>
        LET gap == start(heaps[1].allocations[2]) - end(heaps[1].allocations[1]) IN
        /\ ~last.panicked
        /\ last.ret = gap
        /\ last.hit = (scn.size.k = 0 /\ gap >= scn.size.d)

====
